---- MODULE Spec2Model ----
(***************************************************************************)
(* Attribute resolvers of vega: get_ip_addr, get_terminal,                 *)
(* get_window_manager (src/data/software/individual_stats.rs) and          *)
(* get_logo (src/logo/logo.rs).  Each resolver is a specification of its   *)
(* own (SpecIp, SpecTerm, SpecWm, SpecLogo): the resolvers share no state. *)
(* Names and numbers are sequences of one-character strings, so that       *)
(* lower-casing, prefix and suffix tests and parsing are computed; command *)
(* output in get_window_manager and get_logo is a sequence of words and    *)
(* separators, so that trimming and splitting are computed.                *)
(***************************************************************************)
EXTENDS Integers, Sequences, FiniteSets, TLC

\* ------------------------------------------------------------------ bounds
MaxIfaces == 2
MaxDepth == 3
MaxSteps == 5

MaxOpeners == 2

\* ------------------------------------------------------------------- state
\* get_ip_addr: the interface snapshot, the position in the function, the
\* returned text and the interface it came from
VARIABLES networks, ipPc, ipResult, ipFrom
\* get_terminal: the ancestors' command names, the locals pid and pname,
\* the iterations done, whether a lookup has failed, the returned text
VARIABLES procNames, termPc, pid, pname, steps, lookupFailed, termResult
\* get_window_manager: the host, the index into SUPPORTED_WMS, the locals
\* desktop and wmpid, the probes run so far, the returned text
VARIABLES host, wmPc, wmIdx, desktop, wmpid, probes, wmResult
\* get_logo: the host, the locals os_distro and content, the returned Logo
VARIABLES logoHost, logoPc, os_distro, content, logo

ipVars == <<networks, ipPc, ipResult, ipFrom>>
termVars == <<procNames, termPc, pid, pname, steps, lookupFailed, termResult>>
wmVars == <<host, wmPc, wmIdx, desktop, wmpid, probes, wmResult>>
logoVars == <<logoHost, logoPc, os_distro, content, logo>>
vars == <<ipVars, termVars, wmVars, logoVars>>

\* ------------------------------------------------------------ text helpers
UpperChars == <<"A","B","C","D","E","F","G","H","I","J","K","L","M",
                "N","O","P","Q","R","S","T","U","V","W","X","Y","Z">>
LowerChars == <<"a","b","c","d","e","f","g","h","i","j","k","l","m",
                "n","o","p","q","r","s","t","u","v","w","x","y","z">>

LowerOf ==
    [c \in {UpperChars[i] : i \in 1..Len(UpperChars)} |->
        LowerChars[CHOOSE i \in 1..Len(UpperChars) : UpperChars[i] = c]]

LowerChar(c) == IF c \in DOMAIN LowerOf THEN LowerOf[c] ELSE c

to_lowercase(s) == [i \in 1..Len(s) |-> LowerChar(s[i])]

starts_with(s, p) == Len(s) >= Len(p) /\ SubSeq(s, 1, Len(p)) = p

ends_with(s, p) ==
    Len(s) >= Len(p) /\ SubSeq(s, Len(s) - Len(p) + 1, Len(s)) = p

IsSpace(c) == c \in {" ", "\n", "\t"}

RECURSIVE trim_start(_)
trim_start(s) ==
    IF s # <<>> /\ IsSpace(s[1]) THEN trim_start(Tail(s)) ELSE s

RECURSIVE trim_end(_)
trim_end(s) ==
    IF s # <<>> /\ IsSpace(s[Len(s)])
    THEN trim_end(SubSeq(s, 1, Len(s) - 1)) ELSE s

trim(s) == trim_end(trim_start(s))

DigitChars == <<"0","1","2","3","4","5","6","7","8","9">>
IsDigit(c) == \E d \in 1..10 : DigitChars[d] = c
DigitValue(c) == (CHOOSE d \in 1..10 : DigitChars[d] = c) - 1

\* decimal rendering of a natural number
RECURSIVE Decimal(_)
Decimal(n) ==
    IF n < 10 THEN <<DigitChars[n + 1]>>
    ELSE Append(Decimal(n \div 10), DigitChars[(n % 10) + 1])

RECURSIVE DecimalValue(_)
DecimalValue(s) ==
    IF s = <<>> THEN 0
    ELSE 10 * DecimalValue(SubSeq(s, 1, Len(s) - 1)) + DigitValue(s[Len(s)])

None == [some |-> FALSE]
Some(v) == [some |-> TRUE, val |-> v]
unwrap_or(opt, d) == IF opt.some THEN opt.val ELSE d

\* ------------------------------------------------------------- get_ip_addr
\* interface names the snapshot may hold
IfaceNames ==
    { <<"l","o">>, <<"L","o">>, <<"l","o","0">>,
      <<"e","n","0">>, <<"w","l","a","n","0">>, <<"w","w","a","n","0">>,
      <<"t","a","i","l","s","c","a","l","e","0">>,
      <<"t","u","n","0">>, <<"n","m","0">>, <<"b","r","0">> }

\* an address list: the families of an interface's addresses, each address
\* carrying its position in the interface's enumeration order
FamilyLists ==
    { <<>>, <<TRUE>>, <<FALSE>>, <<TRUE, FALSE>>, <<FALSE, TRUE>>,
      <<FALSE, TRUE, TRUE>>, <<FALSE, FALSE, TRUE>> }
AddrList(f) == [i \in 1..Len(f) |-> [v4 |-> f[i], ord |-> i]]

\* a u32 as two 16-bit limbs, most significant first
U32(n) == <<n \div 65536, n % 65536>>
U32Max == <<65535, 65535>>
U32Pred(p) == IF p[2] > 0 THEN <<p[1], p[2] - 1>> ELSE <<p[1] - 1, 65535>>
U32Less(a, b) == a[1] < b[1] \/ (a[1] = b[1] /\ a[2] < b[2])

LoopbackUnrankedRules(nw_name) ==
    IF starts_with(nw_name, <<"e","n">>) THEN U32(0)
    ELSE IF starts_with(nw_name, <<"w","l">>) THEN U32(1)
    ELSE IF starts_with(nw_name, <<"w","w","a","n">>) THEN U32(2)
    ELSE IF starts_with(nw_name, <<"t","a","i","l","s","c","a","l","e">>)
         THEN U32Pred(U32Max)
    ELSE IF starts_with(nw_name, <<"t","u","n">>) THEN U32(1000)
    ELSE IF starts_with(nw_name, <<"t","a","p">>) THEN U32(1000)
    ELSE IF starts_with(nw_name, <<"w","g">>) THEN U32(1000)
    ELSE IF starts_with(nw_name, <<"v","p","n">>) THEN U32(1000)
    ELSE IF starts_with(nw_name, <<"n","m">>) THEN U32(1001)
    ELSE U32(69)

\* the prefix rules of the closure, on the lower-cased name
PriorityRules(nw_name) ==
    IF starts_with(nw_name, <<"e","n">>) THEN U32(0)
    ELSE IF starts_with(nw_name, <<"w","l">>) THEN U32(1)
    ELSE IF starts_with(nw_name, <<"w","w","a","n">>) THEN U32(2)
    ELSE IF starts_with(nw_name, <<"t","a","i","l","s","c","a","l","e">>)
         THEN U32Pred(U32Max)
    ELSE IF starts_with(nw_name, <<"t","u","n">>) THEN U32(1000)
    ELSE IF starts_with(nw_name, <<"t","a","p">>) THEN U32(1000)
    ELSE IF starts_with(nw_name, <<"w","g">>) THEN U32(1000)
    ELSE IF starts_with(nw_name, <<"v","p","n">>) THEN U32(1000)
    ELSE IF starts_with(nw_name, <<"n","m">>) THEN U32(1001)
    ELSE IF nw_name = <<"l","o">> THEN U32Max
    ELSE U32(69)

CaseSensitivePriority(name) == PriorityRules(name)

\* the closure handed to sort_by_priority
Priority(name) == PriorityRules(to_lowercase(name))

\* utils::sort_by_priority: stable, ascending by the key
RECURSIVE InsertByPriority(_, _)
InsertByPriority(sorted, x) ==
    IF sorted = <<>> \/ ~U32Less(Priority(x.name), Priority(sorted[Len(sorted)].name))
    THEN Append(sorted, x)
    ELSE Append(InsertByPriority(SubSeq(sorted, 1, Len(sorted) - 1), x),
                sorted[Len(sorted)])

RECURSIVE sort_by_priority(_)
sort_by_priority(s) ==
    IF s = <<>> THEN <<>>
    ELSE InsertByPriority(sort_by_priority(SubSeq(s, 1, Len(s) - 1)), s[Len(s)])

SwappedCmpAddr(a, b) ==
    IF a.v4 /\ ~b.v4 THEN "Greater"
    ELSE IF ~b.v4 /\ a.v4 THEN "Less"
    ELSE "Equal"

\* the comparator of addrs.sort_by: its second test repeats the first
CmpAddr(a, b) ==
    IF a.v4 /\ ~b.v4 THEN "Less"
    ELSE IF ~b.v4 /\ a.v4 THEN "Greater"
    ELSE "Equal"

\* slice::sort_by on a short slice: insertion sort, the element being
\* inserted is compared with the one before it and moves while it is Less
RECURSIVE InsertTail(_, _)
InsertTail(sorted, x) ==
    IF sorted = <<>> \/ CmpAddr(x, sorted[Len(sorted)]) # "Less"
    THEN Append(sorted, x)
    ELSE Append(InsertTail(SubSeq(sorted, 1, Len(sorted) - 1), x),
                sorted[Len(sorted)])

RECURSIVE sort_by(_)
sort_by(s) ==
    IF s = <<>> THEN <<>>
    ELSE InsertTail(sort_by(SubSeq(s, 1, Len(s) - 1)), s[Len(s)])

\* IpAddr::to_string, the text standing for the address
IpToString(a) == <<IF a.v4 THEN "v4" ELSE "v6", a.ord>>

extract_ip(network) ==
    LET addrs == sort_by(network.addrs) IN
    IF Len(addrs) = 0 THEN None ELSE Some(IpToString(addrs[1]))

NoConnection == <<"No Connection">>

\* the loop over networks_sorted: index of the first interface with an
\* address, 0 when there is none
RECURSIVE ScanNetworks(_, _)
ScanNetworks(sorted, i) ==
    IF i > Len(sorted) THEN 0
    ELSE IF extract_ip(sorted[i]).some THEN i
    ELSE ScanNetworks(sorted, i + 1)

\* Networks::new_with_refreshed_list: the snapshot, in the map's iteration
\* order, which is arbitrary
Enumerate ==
    /\ ipPc = "snapshot"
    /\ Len(networks) < MaxIfaces
    /\ \E n \in IfaceNames, f \in FamilyLists :
          /\ \A i \in 1..Len(networks) : networks[i].name # n
          /\ networks' = Append(networks, [name |-> n, addrs |-> AddrList(f)])
    /\ UNCHANGED <<ipPc, ipResult, ipFrom, termVars, wmVars, logoVars>>

get_ip_addr ==
    /\ ipPc = "snapshot"
    /\ LET networks_sorted == sort_by_priority(networks)
           k == ScanNetworks(networks_sorted, 1)
       IN  /\ ipResult' = IF k = 0 THEN NoConnection
                          ELSE extract_ip(networks_sorted[k]).val
           /\ ipFrom' = IF k = 0 THEN <<>> ELSE networks_sorted[k].name
    /\ ipPc' = "done"
    /\ UNCHANGED <<networks, termVars, wmVars, logoVars>>

IpNext == Enumerate \/ get_ip_addr


\* ---------------------------------------------------- claims on get_ip_addr
IsLoopback(name) == to_lowercase(name) = <<"l","o">>
HasAddr(nw) == Len(nw.addrs) > 0
Ifaces == 1..Len(networks)
Selected == CHOOSE i \in Ifaces : networks[i].name = ipFrom

\* C1: get_ip_addr never returns an address of the loopback interface
\* (name "lo", compared case-insensitively) while some non-loopback
\* interface has at least one address.
C1_NoLoopbackWhileOtherHasAddr ==
    (ipPc = "done" /\ \E i \in Ifaces :
        ~IsLoopback(networks[i].name) /\ HasAddr(networks[i]))
    => ~IsLoopback(ipFrom)

C1_Witness ==
    /\ ipPc = "done"
    /\ Len(networks) = 2
    /\ IsLoopback(networks[1].name) /\ HasAddr(networks[1])
    /\ networks[2].name = <<"t","u","n","0">> /\ HasAddr(networks[2])
    /\ ipFrom = <<"t","u","n","0">>

\* C2: when the only interfaces that have addresses are loopback
\* interfaces, get_ip_addr returns "No Connection".
C2_LoopbackOnlyIsNoConnection ==
    (/\ ipPc = "done"
     /\ \E i \in Ifaces : HasAddr(networks[i])
     /\ \A i \in Ifaces : HasAddr(networks[i]) => IsLoopback(networks[i].name))
    => ipResult = NoConnection

\* C3: when the selected interface has both an IPv4 and an IPv6 address,
\* in any order, the result is its first IPv4 address in enumeration order.
C3_FirstIpv4OfSelected ==
    (/\ ipPc = "done"
     /\ ipFrom # <<>>
     /\ \E j \in 1..Len(networks[Selected].addrs) : networks[Selected].addrs[j].v4
     /\ \E j \in 1..Len(networks[Selected].addrs) : ~networks[Selected].addrs[j].v4)
    => LET addrs == networks[Selected].addrs
           first == CHOOSE j \in 1..Len(addrs) :
                       addrs[j].v4 /\ \A k \in 1..(j - 1) : ~addrs[k].v4
       IN  ipResult = IpToString(addrs[first])

C3_Witness ==
    /\ ipPc = "done"
    /\ ipFrom # <<>>
    /\ Len(networks[Selected].addrs) = 3
    /\ ~networks[Selected].addrs[1].v4
    /\ networks[Selected].addrs[2].v4
    /\ networks[Selected].addrs[3].v4
    /\ ipResult = <<"v4", 2>>

\* the score table as the claim states it
C7_Score(name) ==
    LET n == to_lowercase(name) IN
    IF n = <<"l","o">> THEN U32Max
    ELSE IF starts_with(n, <<"t","a","i","l","s","c","a","l","e">>)
         THEN U32Pred(U32Max)
    ELSE IF starts_with(n, <<"n","m">>) THEN U32(1001)
    ELSE IF \/ starts_with(n, <<"t","u","n">>) \/ starts_with(n, <<"t","a","p">>)
            \/ starts_with(n, <<"w","g">>) \/ starts_with(n, <<"v","p","n">>)
         THEN U32(1000)
    ELSE IF starts_with(n, <<"w","w","a","n">>) THEN U32(2)
    ELSE IF starts_with(n, <<"w","l">>) THEN U32(1)
    ELSE IF starts_with(n, <<"e","n">>) THEN U32(0)
    ELSE U32(69)

C7_RuleNames ==
    IfaceNames \cup
    { <<"t","a","p","0">>, <<"w","g","0">>, <<"v","p","n","0">>,
      <<"E","N","P","3","S","0">>, <<"W","G","0">>, <<"l","o","l">>,
      <<"t","a","i","l","0">>, <<"e","t","h","0">>, <<"n">>, <<>> }

C7_TableAgrees == \A n \in C7_RuleNames : Priority(n) = C7_Score(n)

Sh == <<"s","h">>
CommNames ==
    { Sh, <<"b","a","s","h">>, <<"z","s","h">>, <<"t","m","u","x">>,
      <<"s","y","s","t","e","m","d">> }

\* The ancestors of the running process: procNames[p] is the command name
\* of PID p, the parent of PID p is PID p - 1, PID 1 has parent 0 and the
\* parent of the running process is PID Len(procNames).
getppid == Len(procNames)
Exists(p) == p \in 1..Len(procNames)

\* stdout of `ps -p <p> -o comm=`; nothing when ps finds no such process
\* or the command fails
PsComm(p, ok) == IF ok /\ Exists(p) THEN procNames[p] \o <<"\n">> ELSE <<>>

\* stdout of `ps -p <p> -o ppid=`, right-aligned
PsPpid(p, ok) ==
    IF ok /\ Exists(p) THEN <<" ", " ">> \o Decimal(p - 1) \o <<"\n">> ELSE <<>>

\* str::parse::<i32> on the PIDs that occur
parse_i32(s) ==
    IF s # <<>> /\ \A i \in 1..Len(s) : IsDigit(s[i])
    THEN Some(DecimalValue(s)) ELSE None

LooksLikeShExactly(name) == name = Sh

\* the loop condition pname.ends_with("sh")
LooksLikeShell(name) == ends_with(name, Sh)

\* lines 130-131
TermStart ==
    /\ termPc = "start"
    /\ \E ok \in BOOLEAN :
          /\ pid' = getppid
          /\ pname' = trim(PsComm(getppid, ok))
          /\ lookupFailed' = ~ok
    /\ termPc' = "loop"
    /\ UNCHANGED <<procNames, steps, termResult, ipVars, wmVars, logoVars>>

\* one iteration of the while loop, lines 133-140
TermWalk ==
    /\ termPc = "loop"
    /\ LooksLikeShell(pname)
    /\ steps < MaxSteps
    /\ \E okPpid \in BOOLEAN, okComm \in BOOLEAN :
          LET next == unwrap_or(parse_i32(trim(PsPpid(pid, okPpid))), 1) IN
          /\ pid' = next
          /\ pname' = trim(PsComm(next, okComm))
          /\ lookupFailed' = (lookupFailed \/ ~okPpid \/ ~okComm)
    /\ steps' = steps + 1
    /\ UNCHANGED <<procNames, termPc, termResult, ipVars, wmVars, logoVars>>

\* line 142
TermReturn ==
    /\ termPc = "loop"
    /\ ~LooksLikeShell(pname)
    /\ termResult' = pname
    /\ termPc' = "done"
    /\ UNCHANGED <<procNames, pid, pname, steps, lookupFailed,
                   ipVars, wmVars, logoVars>>

TermNext == TermStart \/ TermWalk \/ TermReturn


\* --------------------------------------------------- claims on get_terminal
\* C4: the walk takes at most (depth of the process tree) iterations, also
\* when a parent-PID lookup fails to parse and when PID 1's name ends in
\* "sh"; it never loops indefinitely.
C4_WalkWithinDepth == steps <= Len(procNames)

NonShell(p) == ~ends_with(procNames[p], Sh)
Nearest(p) ==
    /\ Exists(p) /\ NonShell(p)
    /\ \A q \in (p + 1)..Len(procNames) : ~NonShell(q)

ShellReturn(out, code) == [stdout |-> out, err_code |-> code]

SUPPORTED_WMS == <<"yabai", "Amethyst">>
WmUnknown == <<"None/Unknown">>

WmPids == {"200", "201", "202"}
CommOf == [p \in WmPids |->
             IF p = "200" THEN "sway" ELSE IF p = "201" THEN "Xwayland" ELSE "foot"]

DesktopValues ==
    { None, Some(<<>>), Some(<<" ">>), Some(<<"GNOME">>), Some(<<"KDE", " ">>) }

\* the processes holding the Wayland socket open, in the order the
\* utilities list them
OpenerLists ==
    { o \in UNION { [1..n -> WmPids] : n \in 0..MaxOpeners } :
        \A i, j \in 1..Len(o) : i # j => o[i] # o[j] }

Hosts ==
    [ uname : {"Darwin", "Linux"},
      running : SUBSET {"yabai", "Amethyst"},
      xdg : DesktopValues,
      fuser : BOOLEAN,
      lsof : BOOLEAN,
      openers : OpenerLists,
      alive : SUBSET WmPids ]

RECURSIVE Join(_, _)
Join(words, sep) ==
    IF words = <<>> THEN <<>>
    ELSE IF Len(words) = 1 THEN <<words[1]>>
    ELSE <<words[1], sep>> \o Join(Tail(words), sep)

\* `uname`
RunUname(h) == ShellReturn(<<h.uname, "\n">>, 0)

\* `pgrep -x <wm>`
RunPgrep(h, wm) == ShellReturn(<<>>, IF wm \in h.running THEN 0 ELSE 1)

\* `: "${XDG_CURRENT_DESKTOP:?}" && echo "$XDG_CURRENT_DESKTOP"`: the
\* expansion fails when the variable is unset or null
RunDesktop(h) ==
    IF h.xdg.some /\ h.xdg.val # <<>>
    THEN ShellReturn(h.xdg.val \o <<"\n">>, 0)
    ELSE ShellReturn(<<>>, 1)

\* `fuser <socket>`: the PIDs on one line, exit 1 when nobody has it open
RunFuser(h) ==
    IF h.openers # <<>>
    THEN ShellReturn(<<" ">> \o Join(h.openers, " ") \o <<"\n">>, 0)
    ELSE ShellReturn(<<>>, 1)

\* `lsof -t <socket> 2>&1`: one PID per line, exit 1 when nobody has it open
RunLsof(h) ==
    IF h.openers # <<>>
    THEN ShellReturn(Join(h.openers, "\n") \o <<"\n">>, 0)
    ELSE ShellReturn(<<>>, 1)

\* `echo <text> | awk '{print $1}'`: the first field of the line
RunAwkFirst(text) ==
    LET t == trim(text) IN
    ShellReturn(IF t = <<>> THEN <<"\n">> ELSE <<t[1], "\n">>, 0)

HasNewline(text) == \E i \in 1..Len(text) : text[i] = "\n"
FirstLine(text) ==
    IF HasNewline(text)
    THEN SubSeq(text, 1, (CHOOSE i \in 1..Len(text) :
                 text[i] = "\n" /\ \A j \in 1..(i - 1) : text[j] # "\n") - 1)
    ELSE text

\* `ps -p <text> -o comm=` through sh: with one PID, the command name of
\* the process; a line break in the text ends the command there, so sh
\* runs `ps -p <first line>` (the default listing: a header, then the row
\* of the process) and then fails to run the remainder
RunPsComm(h, text) ==
    IF HasNewline(text)
    THEN LET first == FirstLine(text) IN
         IF Len(first) = 1 /\ first[1] \in h.alive
         THEN ShellReturn(<<"PID", " ", "CMD", "\n",
                            first[1], " ", CommOf[first[1]], "\n">>, 127)
         ELSE ShellReturn(<<"PID", " ", "CMD", "\n">>, 127)
    ELSE IF Len(text) = 1 /\ text[1] \in h.alive
         THEN ShellReturn(<<CommOf[text[1]], "\n">>, 0)
         ELSE ShellReturn(<<>>, 1)

InvertedDesktopFound(d) == d.err_code # 0 /\ trim(d.stdout) # <<>>

\* line 95
DesktopFound(d) == d.err_code = 0 /\ trim(d.stdout) # <<>>

NoReturn == ShellReturn(<<>>, 0)

\* line 80
WmUname ==
    /\ wmPc = "uname"
    /\ wmPc' = IF trim(RunUname(host).stdout) = <<"Darwin">>
               THEN "pgrep" ELSE "desktop"
    /\ probes' = Append(probes, "uname")
    /\ UNCHANGED <<host, wmIdx, desktop, wmpid, wmResult,
                   ipVars, termVars, logoVars>>

\* lines 83-87, one iteration
WmPgrep ==
    /\ wmPc = "pgrep"
    /\ wmIdx <= Len(SUPPORTED_WMS)
    /\ probes' = Append(probes, "pgrep")
    /\ IF RunPgrep(host, SUPPORTED_WMS[wmIdx]).err_code = 0
       THEN /\ wmResult' = <<SUPPORTED_WMS[wmIdx]>>
            /\ wmPc' = "done"
            /\ UNCHANGED wmIdx
       ELSE /\ wmIdx' = wmIdx + 1
            /\ UNCHANGED <<wmResult, wmPc>>
    /\ UNCHANGED <<host, desktop, wmpid, ipVars, termVars, logoVars>>

\* line 89
WmAqua ==
    /\ wmPc = "pgrep"
    /\ wmIdx > Len(SUPPORTED_WMS)
    /\ wmResult' = <<"aqua">>
    /\ wmPc' = "done"
    /\ UNCHANGED <<host, wmIdx, desktop, wmpid, probes,
                   ipVars, termVars, logoVars>>

\* lines 93-97
WmDesktop ==
    /\ wmPc = "desktop"
    /\ LET d == RunDesktop(host) IN
       /\ desktop' = d
       /\ IF DesktopFound(d)
          THEN wmResult' = trim(d.stdout) /\ wmPc' = "done"
          ELSE wmPc' = "which" /\ UNCHANGED wmResult
    /\ probes' = Append(probes, "desktop")
    /\ UNCHANGED <<host, wmIdx, wmpid, ipVars, termVars, logoVars>>

\* lines 100-103: fuser is installed
WmFuser ==
    /\ wmPc = "which"
    /\ host.fuser
    /\ LET pid_raw == RunFuser(host) IN
       /\ wmpid' = pid_raw
       /\ wmPc' = IF pid_raw.err_code = 0 THEN "awk" ELSE "wmpid"
    /\ probes' = Append(probes, "fuser")
    /\ UNCHANGED <<host, wmIdx, desktop, wmResult, ipVars, termVars, logoVars>>

\* line 104
WmAwk ==
    /\ wmPc = "awk"
    /\ wmpid' = RunAwkFirst(trim(wmpid.stdout))
    /\ wmPc' = "wmpid"
    /\ probes' = Append(probes, "awk")
    /\ UNCHANGED <<host, wmIdx, desktop, wmResult, ipVars, termVars, logoVars>>

\* lines 108-109: no fuser, lsof is installed
WmLsof ==
    /\ wmPc = "which"
    /\ ~host.fuser /\ host.lsof
    /\ wmpid' = RunLsof(host)
    /\ wmPc' = "wmpid"
    /\ probes' = Append(probes, "lsof")
    /\ UNCHANGED <<host, wmIdx, desktop, wmResult, ipVars, termVars, logoVars>>

\* lines 110-116: neither utility
WmNoUtility ==
    /\ wmPc = "which"
    /\ ~host.fuser /\ ~host.lsof
    /\ wmpid' = ShellReturn(<<>>, 1)
    /\ wmPc' = "wmpid"
    /\ UNCHANGED <<host, wmIdx, desktop, probes, wmResult,
                   ipVars, termVars, logoVars>>

\* lines 118-123
WmPs ==
    /\ wmPc = "wmpid"
    /\ wmpid.err_code = 0
    /\ wmResult' = trim(RunPsComm(host, trim(wmpid.stdout)).stdout)
    /\ wmPc' = "done"
    /\ probes' = Append(probes, "ps")
    /\ UNCHANGED <<host, wmIdx, desktop, wmpid, ipVars, termVars, logoVars>>

\* line 125
WmNoneUnknown ==
    /\ wmPc = "wmpid"
    /\ wmpid.err_code # 0
    /\ wmResult' = WmUnknown
    /\ wmPc' = "done"
    /\ UNCHANGED <<host, wmIdx, desktop, wmpid, probes,
                   ipVars, termVars, logoVars>>

WmNext ==
    \/ WmUname \/ WmPgrep \/ WmAqua \/ WmDesktop \/ WmFuser \/ WmAwk
    \/ WmLsof \/ WmNoUtility \/ WmPs \/ WmNoneUnknown

\* ------------------------------------------- claims on get_window_manager
Ran(probe) == \E i \in 1..Len(probes) : probes[i] = probe
IsDarwin == host.uname = "Darwin"

\* C5: get_window_manager never returns an empty string; when every
\* strategy fails (non-Apple host, desktop variable unset or empty, and in
\* the socket-owner strategy a step exits non-zero or gives no output, the
\* final PID-to-name lookup included) the result is "None/Unknown".
C5_AllFailIsNoneUnknown ==
    wmPc = "done" =>
       /\ wmResult # <<>>
       /\ (/\ ~IsDarwin
           /\ ~DesktopFound(RunDesktop(host))
           /\ \/ wmpid.err_code # 0
              \/ trim(wmpid.stdout) = <<>>
              \/ trim(RunPsComm(host, trim(wmpid.stdout)).stdout) = <<>>)
          => wmResult = WmUnknown

\* C6 as stated: on a host where the desktop variable is set, the result
\* is its trimmed value and no fuser, lsof or ps probe is run.
C6_SetVariableWins ==
    (wmPc = "done" /\ host.xdg.some) =>
       /\ wmResult = trim(host.xdg.val)
       /\ ~Ran("fuser") /\ ~Ran("lsof") /\ ~Ran("ps")

\* C6 amended: on a non-Darwin host where the desktop variable is set to a
\* value that is not empty after trimming, the result is the trimmed value,
\* whatever holds the Wayland socket, and only uname and the variable are
\* probed; on a Darwin host only uname and pgrep are probed; and whenever a
\* fuser, lsof, awk or ps probe has run, the strategies before it failed.
C6_FirstSuccessInFixedOrder ==
    /\ (wmPc = "done" /\ ~IsDarwin /\ host.xdg.some /\ trim(host.xdg.val) # <<>>)
          => wmResult = trim(host.xdg.val) /\ probes = <<"uname", "desktop">>
    /\ (wmPc = "done" /\ IsDarwin)
          => \A i \in 1..Len(probes) : probes[i] \in {"uname", "pgrep"}
    /\ (Ran("fuser") \/ Ran("lsof") \/ Ran("awk") \/ Ran("ps"))
          => ~IsDarwin /\ Ran("desktop") /\ ~DesktopFound(desktop)

C6_Witness ==
    /\ wmPc = "done"
    /\ ~IsDarwin
    /\ host.xdg = Some(<<"KDE", " ">>)
    /\ host.fuser /\ host.openers = <<"200">> /\ "200" \in host.alive
    /\ wmResult = <<"KDE">>

\* C9: in the socket-owner strategy, with either utility, the result is
\* the command name of the first PID the utility lists, also when several
\* processes hold the socket.
C9_FirstOpenerName ==
    (/\ wmPc = "done"
     /\ Ran("fuser") \/ Ran("lsof")
     /\ host.openers # <<>>
     /\ host.openers[1] \in host.alive)
    => wmResult = <<CommOf[host.openers[1]]>>

\* ------------------------------------------------------------------ get_logo
LogoUnames == {"Linux", "Darwin", "FreeBSD", "OpenBSD"}
KnownDistros ==
    <<"alpine", "arch", "artix", "debian", "endeavouros", "fedora", "freebsd",
      "gentoo", "linuxmint", "manjaro", "macos", "nixos", "nobara", "pop",
      "raspbian", "ubuntu">>
OsReleaseIds ==
    {KnownDistros[i] : i \in 1..Len(KnownDistros)} \cup {"void", "unknown", ""}

\* `awk -F= '/^ID=/ {...; print $2}' /etc/os-release`
RunOsReleaseId(h) ==
    ShellReturn(IF h.id = "" THEN <<>> ELSE <<h.id, "\n">>, 0)

\* the art files: a first line "<rows> <cols>", then the rows of the art
ArtFile(i) ==
    Decimal(i + 1) \o <<" ">> \o Decimal(2 * i + 10) \o <<"\n">>
    \o <<"#", "#", "\n", "#", "#", "\n">>

\* the match of lines 30-48
SelectArt(distro) ==
    IF \E i \in 1..Len(KnownDistros) : KnownDistros[i] = distro
    THEN ArtFile(CHOOSE i \in 1..Len(KnownDistros) : KnownDistros[i] = distro)
    ELSE <<>>

\* str::lines
RECURSIVE lines(_)
lines(text) ==
    IF text = <<>> THEN <<>>
    ELSE IF HasNewline(text)
         THEN <<FirstLine(text)>>
              \o lines(SubSeq(text, Len(FirstLine(text)) + 2, Len(text)))
         ELSE <<text>>

\* str::split_whitespace
RECURSIVE split_whitespace(_)
split_whitespace(text) ==
    LET t == trim_start(text) IN
    IF t = <<>> THEN <<>>
    ELSE LET n == IF \E i \in 1..Len(t) : IsSpace(t[i])
                  THEN (CHOOSE i \in 1..Len(t) :
                           IsSpace(t[i]) /\ \A j \in 1..(i - 1) : ~IsSpace(t[j])) - 1
                  ELSE Len(t)
         IN  <<SubSeq(t, 1, n)>> \o split_whitespace(SubSeq(t, n + 1, Len(t)))

\* str::parse::<u16>
parse_u16(s) ==
    IF s # <<>> /\ Len(s) <= 5 /\ (\A i \in 1..Len(s) : IsDigit(s[i]))
       /\ DecimalValue(s) <= 65535
    THEN Some(DecimalValue(s)) ELSE None

\* lines 51-54: Some(rows, cols) when no unwrap panics
ParseHeader(ls) ==
    IF ls = <<>> THEN None
    ELSE LET logo_metadata == split_whitespace(ls[1]) IN
         IF Len(logo_metadata) < 2 THEN None
         ELSE IF ~parse_u16(logo_metadata[1]).some
                 \/ ~parse_u16(logo_metadata[2]).some THEN None
         ELSE Some([rows |-> parse_u16(logo_metadata[1]).val,
                    cols |-> parse_u16(logo_metadata[2]).val])

NoLogo == [rows |-> 0, cols |-> 0, content |-> <<>>]

\* line 20 and the arms of lines 25-27
LogoUname ==
    /\ logoPc = "uname"
    /\ LET u == trim(<<logoHost.uname, "\n">>) IN
       IF u = <<"Linux">>
       THEN logoPc' = "os_release" /\ UNCHANGED os_distro
       ELSE /\ logoPc' = "select"
            /\ os_distro' = IF u = <<"Darwin">> THEN "macos"
                             ELSE IF u = <<"FreeBSD">> THEN "freebsd"
                             ELSE "unknown"
    /\ UNCHANGED <<logoHost, content, logo, ipVars, termVars, wmVars>>

\* lines 21-24
LogoOsRelease ==
    /\ logoPc = "os_release"
    /\ LET id == trim(RunOsReleaseId(logoHost).stdout) IN
       os_distro' = IF id = <<>> THEN "" ELSE id[1]
    /\ logoPc' = "select"
    /\ UNCHANGED <<logoHost, content, logo, ipVars, termVars, wmVars>>

\* lines 30-49
LogoSelect ==
    /\ logoPc = "select"
    /\ content' = lines(SelectArt(os_distro))
    /\ logoPc' = "header"
    /\ UNCHANGED <<logoHost, os_distro, logo, ipVars, termVars, wmVars>>

\* lines 51-60, every unwrap succeeding
LogoReturn ==
    /\ logoPc = "header"
    /\ ParseHeader(content).some
    /\ logo' = [rows |-> ParseHeader(content).val.rows,
                cols |-> ParseHeader(content).val.cols,
                content |-> Tail(content)]
    /\ content' = Tail(content)
    /\ logoPc' = "done"
    /\ UNCHANGED <<logoHost, os_distro, ipVars, termVars, wmVars>>

\* lines 51-54, an unwrap on None: the thread panics
LogoPanic ==
    /\ logoPc = "header"
    /\ ~ParseHeader(content).some
    /\ logoPc' = "panicked"
    /\ UNCHANGED <<logoHost, os_distro, content, logo, ipVars, termVars, wmVars>>

LogoNext == LogoUname \/ LogoOsRelease \/ LogoSelect \/ LogoReturn \/ LogoPanic

\* ------------------------------------------------------- claims on get_logo
\* C10: get_logo returns a Logo for every OS/distro identifier, one with
\* no art entry included; it never aborts the program.
C10_NeverAborts == logoPc # "panicked"

\* --------------------------------------------------------- specifications
\* Each resolver runs on its own: its specification starts it on any input
\* and holds the other resolvers' variables at fixed values.
IdleHost ==
    [uname |-> "Linux", running |-> {}, xdg |-> None, fuser |-> FALSE,
     lsof |-> FALSE, openers |-> <<>>, alive |-> {}]
IdleLogoHost == [uname |-> "Linux", id |-> "arch"]

\* get_ip_addr before the snapshot is taken
IpInit ==
    /\ networks = <<>>
    /\ ipPc = "snapshot"
    /\ ipResult = <<>>
    /\ ipFrom = <<>>
    /\ procNames = <<Sh>>
    /\ termPc = "start"
    /\ pid = 0
    /\ pname = <<>>
    /\ steps = 0
    /\ lookupFailed = FALSE
    /\ termResult = <<>>
    /\ host = IdleHost
    /\ wmPc = "uname"
    /\ wmIdx = 1
    /\ desktop = NoReturn
    /\ wmpid = NoReturn
    /\ probes = <<>>
    /\ wmResult = <<>>
    /\ logoHost = IdleLogoHost
    /\ logoPc = "uname"
    /\ os_distro = ""
    /\ content = <<>>
    /\ logo = NoLogo

\* get_terminal below any chain of ancestors
TermInit ==
    /\ procNames \in UNION { [1..n -> CommNames] : n \in 1..MaxDepth }
    /\ termPc = "start"
    /\ pid = 0
    /\ pname = <<>>
    /\ steps = 0
    /\ lookupFailed = FALSE
    /\ termResult = <<>>
    /\ networks = <<>>
    /\ ipPc = "snapshot"
    /\ ipResult = <<>>
    /\ ipFrom = <<>>
    /\ host = IdleHost
    /\ wmPc = "uname"
    /\ wmIdx = 1
    /\ desktop = NoReturn
    /\ wmpid = NoReturn
    /\ probes = <<>>
    /\ wmResult = <<>>
    /\ logoHost = IdleLogoHost
    /\ logoPc = "uname"
    /\ os_distro = ""
    /\ content = <<>>
    /\ logo = NoLogo

\* get_window_manager on any host
WmInit ==
    /\ host \in Hosts
    /\ wmPc = "uname"
    /\ wmIdx = 1
    /\ desktop = NoReturn
    /\ wmpid = NoReturn
    /\ probes = <<>>
    /\ wmResult = <<>>
    /\ networks = <<>>
    /\ ipPc = "snapshot"
    /\ ipResult = <<>>
    /\ ipFrom = <<>>
    /\ procNames = <<Sh>>
    /\ termPc = "start"
    /\ pid = 0
    /\ pname = <<>>
    /\ steps = 0
    /\ lookupFailed = FALSE
    /\ termResult = <<>>
    /\ logoHost = IdleLogoHost
    /\ logoPc = "uname"
    /\ os_distro = ""
    /\ content = <<>>
    /\ logo = NoLogo

\* get_logo on any host
LogoInit ==
    /\ logoHost \in [uname : LogoUnames, id : OsReleaseIds]
    /\ logoPc = "uname"
    /\ os_distro = ""
    /\ content = <<>>
    /\ logo = NoLogo
    /\ networks = <<>>
    /\ ipPc = "snapshot"
    /\ ipResult = <<>>
    /\ ipFrom = <<>>
    /\ procNames = <<Sh>>
    /\ termPc = "start"
    /\ pid = 0
    /\ pname = <<>>
    /\ steps = 0
    /\ lookupFailed = FALSE
    /\ termResult = <<>>
    /\ host = IdleHost
    /\ wmPc = "uname"
    /\ wmIdx = 1
    /\ desktop = NoReturn
    /\ wmpid = NoReturn
    /\ probes = <<>>
    /\ wmResult = <<>>

SpecIp == IpInit /\ [][IpNext]_vars
SpecTerm == TermInit /\ [][TermNext]_vars
SpecWm == WmInit /\ [][WmNext]_vars
SpecLogo == LogoInit /\ [][LogoNext]_vars
====
